---- MODULE Spec2Model ----
(***************************************************************************)
(* A model of VulnVortex's network discovery engine                        *)
(* (src/src/tools/network_discovery.py).                                   *)
(*                                                                         *)
(* Two specifications share the pure operators that model the methods of  *)
(* NetworkDiscovery:                                                       *)
(*   SpecProbe     one execution of _scan_ip, one step per blocking call  *)
(*                 (liveness connect, reverse lookup, one connect per      *)
(*                 port), with a log of the calls made and their outcomes; *)
(*   SpecDiscover  one call of discover(): the thread pool, the futures    *)
(*                 and the collection loop, each _scan_ip being one task   *)
(*                 that a worker starts and later finishes.                *)
(* Addresses are 32-bit integers; str(ip) is the tuple of the four octets. *)
(* The network is the environment: the outcome of every connect and of    *)
(* every reverse lookup is chosen nondeterministically.                    *)
(***************************************************************************)
EXTENDS Integers, Sequences, FiniteSets, TLC

VARIABLES
    \* ---- NetworkDiscovery instance (set by __init__) ----
    ip_range,       \* [network_address, prefixlen]: ipaddress.ip_network(..., strict=False)
    threads_arg,    \* the max_threads argument of __init__: [given, value]
    max_threads,    \* self.max_threads
    \* ---- discover() ----
    dpc,            \* position of the thread that called discover()
    next_ip,        \* how many addresses of ip_range have been submitted
    work_queue,     \* the executor's FIFO queue of submitted addresses
    num_threads,    \* worker threads the executor has spawned
    running,        \* addresses whose _scan_ip is being executed by a worker
    futures,        \* address -> future of its _scan_ip: [state, result]
    yielded,        \* addresses whose future as_completed has yielded
    devices,        \* the local list `devices` of discover()
    passed,         \* (history) addresses whose liveness connect succeeded
    finished,       \* as_completed's `finished`: futures done when it was entered
                    \* (those with a result other than None)
    completed,      \* (history) addresses in the order in which their probes ended
                    \* (those with a result other than None)
    \* ---- one _scan_ip execution, step by step ----
    ppc,            \* position inside _scan_ip
    p_ip,           \* the address argument (an integer; str(ip) in device_info)
    device_info,    \* the local dict device_info
    port_i,         \* loop position in _scan_common_ports (1-based index)
    open_ports,     \* the local list open_ports of _scan_common_ports
    p_ret,          \* what _scan_ip returned or raised
    netlog,         \* (history) the network calls made so far: <<op, port, outcome>>
    \* ---- ScanScheduler (src/src/tools/scan_scheduler.py) ----
    jobs,           \* self.jobs: job_id -> [task, schedule_type, kwargs (a reference)]
    registry,       \* schedule.jobs of the schedule module's default scheduler
    heap,           \* the kwargs dicts of the add_job calls, by reference (1-based)
    snapshot,       \* what the last list_jobs() returned, in the caller's hands
    cl,             \* caller thread -> its position inside add_job / remove_job
    exc,            \* the exception the last failed call raised
    s_running,      \* self.running
    scheduler_thread, \* self.scheduler_thread: "new", "alive" or "finished"
    lpc,            \* position of the loop thread inside _run_scheduler
    tasks,          \* the task threads _execute_job started that are still executing
    raised,         \* (history) job ids whose task raised in its thread
    error_log,      \* job ids of the logger.error calls of _execute_job
    late_fires,     \* (history) dispatches made after a stop / after a remove_job
    \* ---- config-driven ScanScheduler (src/tools/scan_scheduler.py) ----
    cpc,            \* position inside run_scheduled_scan ("off": not this program)
    c_rc,           \* result.returncode of the last scan
    c_scans,        \* scan processes that are running
    \* ---- further threads of the scheduler's process ----
    other,          \* a second ScanScheduler instance: [running, thread, lpc]
    extra_loops     \* threads running _run_scheduler besides scheduler_thread

dvars == <<ip_range, threads_arg, max_threads, dpc, next_ip, work_queue, num_threads, running,
           futures, yielded, devices, passed, finished, completed>>
pvars == <<ppc, p_ip, device_info, port_i, open_ports, p_ret, netlog>>
svars == <<jobs, registry, heap, snapshot, cl, exc, s_running, scheduler_thread, lpc,
           tasks, raised, error_log, late_fires, cpc, c_rc, c_scans, other, extra_loops>>
vars == <<dvars, pvars, svars>>

----------------------------------------------------------------------------
\* Bounds of the model
MaxAddresses == 4   \* the ranges swept hold at most this many addresses (/30, /31, /32)
MaxOffset == 1      \* the address written in the CIDR string is BaseAddr + 0..MaxOffset
MaxThreads == 2     \* a max_threads argument ranges over -1..MaxThreads
MaxAlive == 2       \* at most this many hosts of a sweep answer the liveness connect

\* Program constants
AddrBits == 32
LivenessPort == 80
DefaultMaxThreads == 50     \* max_threads: int = 50

\* 10.0.0.0, the address the CIDR strings of the model are written around
\* (TLC's integers are 32-bit signed, so the model stays below 128.0.0.0)
BaseAddr == 10 * 16777216

None == "None"
HostName == "host.example"

\* common_ports of _scan_common_ports
common_ports == <<22, 80, 443, 445, 3389>>

\* What a TCP connect attempt can do: succeed, be refused (socket.error),
\* or run into the timeout (socket.timeout).
ConnectOutcomes == {"connected", "refused", "timeout"}

\* What socket.gethostbyaddr can do: return a name, raise socket.herror, or
\* raise any other exception (not a socket.herror).
LookupOutcomes == {"resolved", "herror", "other"}

RECURSIVE Pow2(_)
Pow2(n) == IF n = 0 THEN 1 ELSE 2 * Pow2(n - 1)

----------------------------------------------------------------------------
\* ipaddress.ip_network(ip_range, strict=False): the host bits of the written
\* address are masked off.
IpNetwork(addr, prefixlen) ==
    LET size == Pow2(AddrBits - prefixlen)
    IN  [network_address |-> addr - (addr % size), prefixlen |-> prefixlen]

\* len(list(network)): iterating an ip_network yields every address of it,
\* from the network address to the broadcast address.
NumAddresses(net) == Pow2(AddrBits - net.prefixlen)

\* The i-th address (0-based) that `for ip in self.ip_range` yields.
NthAddress(net, i) == net.network_address + i

BroadcastAddress(net) == net.network_address + NumAddresses(net) - 1

\* str(ip) of an IPv4Address: the dotted quad, as its four octets.
IpStr(ip) ==
    << (ip \div 16777216) % 256, (ip \div 65536) % 256, (ip \div 256) % 256, ip % 256 >>

----------------------------------------------------------------------------
\* (mutant) only the timeout is caught: a refused connect counts as alive.
IsHostAliveUnlessTimeout(outcome) == outcome # "timeout"

\* _is_host_alive: True iff create_connection((ip, 80)) succeeded; both
\* socket.timeout and socket.error (which includes a refusal) give False.
IsHostAlive(outcome) == outcome = "connected"

\* (mutant) only the timeout is caught: a refused connect counts as open.
IsPortOpenUnlessTimeout(outcome) == outcome # "timeout"

\* _is_port_open: True iff create_connection((ip, port)) succeeded.
IsPortOpen(outcome) == outcome = "connected"

\* _resolve_hostname: only socket.herror is caught.
ResolveHostname(outcome) ==
    CASE outcome = "resolved" -> [raised |-> FALSE, value |-> HostName]
      [] outcome = "herror"   -> [raised |-> FALSE, value |-> None]
      [] OTHER                -> [raised |-> TRUE,  value |-> None]

\* (mutant) open_ports.insert(0, port)
AppendPortFront(ports, port) == <<port>> \o ports

\* open_ports.append(port)
AppendPort(ports, port) == Append(ports, port)

\* (mutant) the port scan directly after the liveness check.
AfterLivenessPortsFirst(alive) == IF alive THEN "ports" ELSE "returned"

\* (mutant) no early return for a host that is not alive.
AfterLivenessNoReturn(alive) == "hostname"

\* _scan_ip after the liveness check: `return None` when the host is not alive,
\* the hostname lookup otherwise.
AfterLiveness(alive) == IF alive THEN "hostname" ELSE "returned"

\* _scan_ip after the hostname lookup: the port scan; after the port scan:
\* `return device_info`.
AfterHostname == "ports"
AfterPorts == "return"

\* _scan_common_ports as a whole, resp[i] being the outcome of the connect to
\* common_ports[i]: the ports that are open, in the order of common_ports.
RECURSIVE ScanPortsFrom(_, _, _)
ScanPortsFrom(i, resp, acc) ==
    IF i > Len(common_ports) THEN acc
    ELSE ScanPortsFrom(i + 1, resp,
                       IF IsPortOpen(resp[i]) THEN AppendPort(acc, common_ports[i]) ELSE acc)

ScanCommonPorts(resp) == ScanPortsFrom(1, resp, <<>>)

\* _scan_ip as a whole: what the future of the task ends with.
\* The result is [kind |-> "None"], [kind |-> "exception"] or the dict
\* [kind |-> "dict", ip, hostname, open_ports].
ScanIp(ip, live, look, resp) ==
    IF ~IsHostAlive(live) THEN [kind |-> "None"]
    ELSE LET h == ResolveHostname(look)
         IN  IF h.raised THEN [kind |-> "exception"]
             ELSE [kind |-> "dict", ip |-> IpStr(ip), hostname |-> h.value,
                   open_ports |-> ScanCommonPorts(resp)]

\* (mutant) every result is appended, None included.
TruthyAlways(result) == TRUE

\* `if result:` in discover(): None is falsy, a device_info dict (three keys)
\* is truthy.
Truthy(result) == result.kind = "dict"

----------------------------------------------------------------------------
\* The environments a host of a sweep is drawn from: what each of the five
\* port connects does.  (SpecProbe draws every connect outcome freely.)
AllRefuse == [i \in 1..Len(common_ports) |-> "refused"]
PortResponses ==
    { AllRefuse,
      [AllRefuse EXCEPT ![2] = "connected", ![3] = "timeout"],
      [AllRefuse EXCEPT ![1] = "connected", ![2] = "connected"] }

Addresses(net) == { NthAddress(net, i) : i \in 0..(NumAddresses(net) - 1) }

\* The prefix lengths of the CIDR strings the model is built with.
Prefixes == { p \in (AddrBits - MaxAddresses)..AddrBits : Pow2(AddrBits - p) <= MaxAddresses }

\* No second ScanScheduler instance has been built.
NoOther == [running |-> FALSE, thread |-> "none", lpc |-> "check"]

\* A caller thread that is inside no call.
IdleCaller == [pc |-> "idle", id |-> "-", ty |-> "-", kw |-> 0]

\* The state after ScanScheduler() has been built (__init__), with no caller
\* thread, and the config-driven scheduler not being the program that runs.
SchedulerIdle ==
    /\ jobs = << >> /\ registry = <<>> /\ heap = <<>>
    /\ snapshot = [taken |-> FALSE, list |-> <<>>]
    /\ cl = << >> /\ exc = "none"
    /\ s_running = FALSE /\ scheduler_thread = "new" /\ lpc = "check"
    /\ tasks = <<>> /\ raised = {} /\ error_log = {} /\ late_fires = {}
    /\ cpc = "off" /\ c_rc = "none" /\ c_scans = 0
    /\ other = NoOther /\ extra_loops = 0

\* The state of one _scan_ip execution while discover() is what is modelled.
ProbeIdle ==
    /\ ppc = "idle" /\ p_ip = 0 /\ device_info = [kind |-> "None"]
    /\ port_i = 0 /\ open_ports = <<>> /\ p_ret = [kind |-> "None"] /\ netlog = <<>>

\* The max_threads arguments NetworkDiscovery is built with: left out, or an
\* integer, which __init__ does not validate.
ThreadArgs ==
    { [given |-> FALSE, value |-> 0] }
        \cup { [given |-> TRUE, value |-> n] : n \in (-1)..MaxThreads }

\* __init__: self.max_threads = max_threads, 50 when the argument is left out.
InitMaxThreads(arg) == IF arg.given THEN arg.value ELSE DefaultMaxThreads

\* (mutant) the executor accepts any max_workers.
PoolRejectsNever(max_workers) == FALSE

\* ThreadPoolExecutor(max_workers=...) raises ValueError for max_workers <= 0.
PoolRejects(max_workers) == max_workers <= 0

\* The state after NetworkDiscovery(ip_range, max_threads) has been built.
InitDiscover ==
    /\ \E off \in 0..MaxOffset, prefixlen \in Prefixes :
          ip_range = IpNetwork(BaseAddr + off, prefixlen)
    /\ threads_arg \in ThreadArgs
    /\ max_threads = InitMaxThreads(threads_arg)
    /\ dpc = "idle"
    /\ next_ip = 0
    /\ work_queue = <<>>
    /\ num_threads = 0
    /\ running = {}
    /\ futures = << >>
    /\ yielded = {}
    /\ devices = <<>>
    /\ passed = {}
    /\ finished = {} /\ completed = <<>>
    /\ ProbeIdle
    /\ SchedulerIdle

\* discover() up to the creation of the executor: ThreadPoolExecutor raises
\* ValueError for max_workers <= 0.
EnterDiscover ==
    /\ dpc = "idle"
    /\ dpc' = IF PoolRejects(max_threads) THEN "raised" ELSE "submit"
    /\ devices' = <<>>
    /\ UNCHANGED <<ip_range, threads_arg, max_threads, next_ip, work_queue, num_threads, running,
                   futures, yielded, passed, finished, completed, pvars, svars>>

\* (mutant) a thread per submitted task, whatever max_workers is.
SpawnsWorkerUnbounded == TRUE

\* executor.submit spawns a worker thread while fewer than max_workers exist.
SpawnsWorker == num_threads < max_threads

\* One executor.submit(self._scan_ip, str(ip)) of the dict comprehension; after
\* the last one the thread enters the as_completed loop.
Submit ==
    /\ dpc = "submit"
    /\ next_ip < NumAddresses(ip_range)
    /\ LET ip == NthAddress(ip_range, next_ip)
       IN  /\ work_queue' = Append(work_queue, ip)
           /\ futures' = (ip :> [state |-> "PENDING", result |-> [kind |-> "None"]]) @@ futures
    /\ num_threads' = IF SpawnsWorker THEN num_threads + 1 ELSE num_threads
    /\ next_ip' = next_ip + 1
    /\ dpc' = IF next_ip' = NumAddresses(ip_range) THEN "as_completed" ELSE "submit"
    /\ UNCHANGED <<ip_range, threads_arg, max_threads, running, yielded, devices, passed,
                   finished, completed, pvars, svars>>

\* A worker thread is free to take the next work item.
WorkerFree == Cardinality(running) < num_threads

\* A worker takes the head of the queue and starts _scan_ip on it.
WorkerStart ==
    /\ work_queue # <<>>
    /\ WorkerFree
    /\ LET ip == Head(work_queue)
       IN  /\ running' = running \cup {ip}
           /\ futures' = [futures EXCEPT ![ip].state = "RUNNING"]
    /\ work_queue' = Tail(work_queue)
    /\ UNCHANGED <<ip_range, threads_arg, max_threads, dpc, next_ip, num_threads, yielded, devices,
                   passed, finished, completed, pvars, svars>>

\* The _scan_ip of a running address ends: the future takes its result or its
\* exception.  The environment of the host is drawn here: the outcome of the
\* liveness connect, of the reverse lookup and of the port connects.  A host
\* that fails the liveness check makes no further call, so one lookup and one
\* port environment stand for all of them; MaxAlive bounds how many hosts of
\* the sweep answer.
FinishProbe(ip) ==
    /\ ip \in running
    /\ \E live \in ConnectOutcomes, look \in LookupOutcomes, resp \in PortResponses :
          /\ IsHostAlive(live) => Cardinality(passed) < MaxAlive
          /\ ~IsHostAlive(live) => (look = "herror" /\ resp = AllRefuse)
          /\ futures' = [futures EXCEPT ![ip] =
                            [state |-> "FINISHED", result |-> ScanIp(ip, live, look, resp)]]
          /\ passed' = IF live = "connected" THEN passed \cup {ip} ELSE passed
    /\ running' = running \ {ip}
    /\ completed' = IF futures'[ip].result.kind = "None" THEN completed
                     ELSE Append(completed, ip)
    /\ UNCHANGED <<ip_range, threads_arg, max_threads, dpc, next_ip, work_queue, num_threads, yielded,
                   devices, finished, pvars, svars>>

\* as_completed(futures) is entered (the for loop asks for its first future):
\* the futures already done form the set `finished`, the others are waited for.
\* The model keeps the order of the futures whose result is not None: a None
\* result is dropped by discover() wherever it is yielded, so those futures
\* are yielded at any time after they are done.
AsCompleted ==
    /\ dpc = "as_completed"
    /\ dpc' = "collect"
    /\ finished' = { ip \in DOMAIN futures : /\ futures[ip].state = "FINISHED"
                                            /\ futures[ip].result.kind # "None" }
    /\ UNCHANGED <<ip_range, threads_arg, max_threads, next_ip, work_queue, num_threads, running,
                   futures, yielded, devices, passed, completed, pvars, svars>>

\* The futures as_completed may yield next: any of the set `finished` (a set
\* of objects, iterated in no particular order) while one of them is left;
\* after them the futures that ended later, in the order in which they ended
\* (waiter.finished_futures, reversed "to keep finishing order").
NextYielded(done, out, order) ==
    IF done \ out # {} THEN done \ out
    ELSE LET left == SelectSeq(order, LAMBDA ip : ip \notin out)
         IN  IF left = <<>> THEN {} ELSE {Head(left)}

\* One iteration of `for future in as_completed(futures)`: the next future is
\* yielded, future.result() returns or re-raises, a truthy result is
\* appended.  After the last future the loop ends.
Collect(ip) ==
    /\ dpc = "collect"
    /\ ip \in DOMAIN futures
    /\ ip \notin yielded
    /\ futures[ip].state = "FINISHED"
    /\ futures[ip].result.kind # "None" => ip \in NextYielded(finished, yielded, completed)
    /\ yielded' = yielded \cup {ip}
    /\ LET result == futures[ip].result
       IN  IF result.kind = "exception"
           THEN /\ dpc' = "exit_exc"
                /\ devices' = devices
           ELSE /\ devices' = IF Truthy(result) THEN Append(devices, result) ELSE devices
                /\ dpc' = IF yielded' = DOMAIN futures THEN "exit_ok" ELSE "collect"
    /\ UNCHANGED <<ip_range, threads_arg, max_threads, next_ip, work_queue, num_threads, running,
                   futures, passed, finished, completed, pvars, svars>>

\* (mutant) shutdown(wait=False): the with block is left at once.
ShutdownReturnsAtOnce(queue, busy) == TRUE

\* executor.__exit__ is shutdown(wait=True): it returns once the queue is
\* drained and every worker thread has ended.
ShutdownReturns(queue, busy) == queue = <<>> /\ busy = {}

\* Leaving the `with` block: executor.shutdown(wait=True) returns once the
\* queue is drained and every worker has ended; then discover() returns
\* devices, or the exception of future.result() propagates.
ExitWith ==
    /\ dpc \in {"exit_ok", "exit_exc"}
    /\ ShutdownReturns(work_queue, running)
    /\ dpc' = IF dpc = "exit_ok" THEN "returned" ELSE "raised"
    /\ num_threads' = 0
    /\ UNCHANGED <<ip_range, threads_arg, max_threads, next_ip, work_queue, running, futures, yielded,
                   devices, passed, finished, completed, pvars, svars>>

NextDiscover ==
    \/ EnterDiscover
    \/ Submit
    \/ WorkerStart
    \/ \E ip \in running : FinishProbe(ip)
    \/ AsCompleted
    \/ \E ip \in DOMAIN futures : Collect(ip)
    \/ ExitWith

SpecDiscover == InitDiscover /\ [][NextDiscover]_vars

----------------------------------------------------------------------------
\* One execution of _scan_ip(str(ip)), one step per blocking call.

\* discover() while a single _scan_ip is what is modelled.
DiscoverIdle ==
    /\ threads_arg = [given |-> TRUE, value |-> 1]
    /\ max_threads = InitMaxThreads(threads_arg)
    /\ dpc = "idle" /\ next_ip = 0 /\ work_queue = <<>>
    /\ num_threads = 0 /\ running = {} /\ futures = << >> /\ yielded = {}
    /\ devices = <<>> /\ passed = {} /\ finished = {} /\ completed = <<>>

\* _scan_ip has been entered with an address of the range and has built
\* device_info; the locals of _scan_common_ports are at their initial values.
InitProbe ==
    /\ \E off \in 0..MaxOffset, prefixlen \in Prefixes :
          ip_range = IpNetwork(BaseAddr + off, prefixlen)
    /\ DiscoverIdle
    /\ SchedulerIdle
    /\ p_ip \in Addresses(ip_range)
    /\ ppc = "liveness"
    /\ device_info = [kind |-> "dict", ip |-> IpStr(p_ip), hostname |-> None,
                      open_ports |-> <<>>]
    /\ port_i = 1
    /\ open_ports = <<>>
    /\ p_ret = [kind |-> "None"]
    /\ netlog = <<>>

Call(op, port, outcome) == [op |-> op, port |-> port, outcome |-> outcome]

\* `if not self._is_host_alive(ip): return None`
HostAliveStep ==
    /\ ppc = "liveness"
    /\ \E o \in ConnectOutcomes :
          /\ netlog' = Append(netlog, Call("is_host_alive", LivenessPort, o))
          /\ ppc' = AfterLiveness(IsHostAlive(o))
    /\ p_ret' = [kind |-> "None"]
    /\ UNCHANGED <<svars, dvars, p_ip, device_info, port_i, open_ports>>

\* The blocking call the probe makes at a position of _scan_ip.
BlockingCall(pc) == IF pc = "hostname" THEN "gethostbyaddr" ELSE "create_connection"

\* Whether the call is given self.timeout: create_connection(..., timeout=
\* self.timeout) is, socket.gethostbyaddr(ip) takes no timeout.
HasTimeout(call) == call = "create_connection"

\* self.timeout has elapsed and the blocking call has not returned: possible
\* only for a call that was not given the timeout (its peer staying silent).
Overdue ==
    /\ ppc \in {"liveness", "hostname", "ports"}
    /\ ~HasTimeout(BlockingCall(ppc))
    /\ ppc' = "overdue"
    /\ UNCHANGED <<svars, dvars, p_ip, device_info, port_i, open_ports, p_ret, netlog>>

\* `device_info["hostname"] = self._resolve_hostname(ip)`; the lookup returns
\* in time, or late (when the system resolver gives up or is answered).
ResolveStep ==
    /\ ppc \in {"hostname", "overdue"}
    /\ \E o \in LookupOutcomes :
          /\ netlog' = Append(netlog, Call("gethostbyaddr", 0, o))
          /\ LET h == ResolveHostname(o)
             IN  IF h.raised
                 THEN /\ ppc' = "raised"
                      /\ p_ret' = [kind |-> "exception"]
                      /\ device_info' = device_info
                 ELSE /\ ppc' = AfterHostname
                      /\ p_ret' = p_ret
                      /\ device_info' = [device_info EXCEPT !.hostname = h.value]
    /\ UNCHANGED <<svars, dvars, p_ip, port_i, open_ports>>

\* One iteration of `for port in common_ports` in _scan_common_ports.
PortStep ==
    /\ ppc = "ports"
    /\ port_i <= Len(common_ports)
    /\ \E o \in ConnectOutcomes :
          /\ netlog' = Append(netlog, Call("is_port_open", common_ports[port_i], o))
          /\ open_ports' = IF IsPortOpen(o) THEN AppendPort(open_ports, common_ports[port_i])
                                            ELSE open_ports
    /\ port_i' = port_i + 1
    /\ UNCHANGED <<svars, dvars, ppc, p_ip, device_info, p_ret>>

\* `return open_ports` and `device_info["open_ports"] = ...`
PortsReturn ==
    /\ ppc = "ports"
    /\ port_i > Len(common_ports)
    /\ device_info' = [device_info EXCEPT !.open_ports = open_ports]
    /\ ppc' = AfterPorts
    /\ UNCHANGED <<svars, dvars, p_ip, port_i, open_ports, p_ret, netlog>>

\* `return device_info`
ReturnInfo ==
    /\ ppc = "return"
    /\ p_ret' = device_info
    /\ ppc' = "returned"
    /\ UNCHANGED <<svars, dvars, p_ip, device_info, port_i, open_ports, netlog>>

NextProbe ==
    \/ HostAliveStep
    \/ Overdue
    \/ ResolveStep
    \/ PortStep
    \/ PortsReturn
    \/ ReturnInfo

SpecProbe == InitProbe /\ [][NextProbe]_vars

----------------------------------------------------------------------------
\* What the log says of the network.
PortCalls == { i \in DOMAIN netlog : netlog[i].op = "is_port_open" }
LookupCalls == { i \in DOMAIN netlog : netlog[i].op = "gethostbyaddr" }
AcceptedPorts == { netlog[i].port : i \in { j \in PortCalls : netlog[j].outcome = "connected" } }
ProbedPorts == { netlog[i].port : i \in PortCalls }
Elems(seq) == { seq[i] : i \in DOMAIN seq }
NoDuplicates(seq) == \A i, j \in DOMAIN seq : i # j => seq[i] # seq[j]

\* The step-by-step execution and _scan_ip taken as a whole agree: the result
\* is that of ScanIp on the outcomes the log holds.
LoggedOutcome(i, default) == IF i \in DOMAIN netlog THEN netlog[i].outcome ELSE default
LoggedResponses ==
    [i \in 1..Len(common_ports) |-> LoggedOutcome(i + 2, "refused")]
StepsAgreeWithScanIp ==
    ppc \in {"returned", "raised"} =>
        p_ret = ScanIp(p_ip, LoggedOutcome(1, "timeout"), LoggedOutcome(2, "herror"),
                       LoggedResponses)

----------------------------------------------------------------------------
\* Claims about discover() (SpecDiscover)

\* The addresses of the range that are neither its network address nor its
\* broadcast address, for prefixes up to /30; every address for /31 and /32.
UsableHosts(net) ==
    IF net.prefixlen <= AddrBits - 2
    THEN Addresses(net) \ {net.network_address, BroadcastAddress(net)}
    ELSE Addresses(net)

\* Every address of the range has been submitted.
SubmittedAll == dpc \in {"as_completed", "collect", "exit_ok", "exit_exc", "returned"}

DeviceIps == { devices[i].ip : i \in DOMAIN devices }

\* C1 (as claimed): the list discover() returns holds one entry per address of
\* the range, its length being the number of addresses swept.
C1_OneEntryPerAddress ==
    dpc = "returned" => Len(devices) = NumAddresses(ip_range)

\* C1 (amended): the list discover() returns holds exactly one entry per
\* address of the range whose liveness connect succeeded, and none for the
\* others: its length is the number of such addresses, at most the number of
\* addresses swept.
C1_OneEntryPerAliveAddress ==
    dpc = "returned" =>
        /\ Len(devices) = Cardinality(passed)
        /\ Len(devices) <= NumAddresses(ip_range)
        /\ passed \subseteq Addresses(ip_range)
        /\ DeviceIps = { IpStr(ip) : ip \in passed }
        /\ Cardinality(DeviceIps) = Len(devices)

\* C1 witness: a sweep has returned with some hosts listed and others omitted.
C1_Witness ==
    /\ dpc = "returned"
    /\ Len(devices) > 0
    /\ Len(devices) < NumAddresses(ip_range)

\* C2: the number of _scan_ip executions running at the same time never
\* exceeds max_threads (and none runs when max_threads is not positive).
C2_ConcurrencyBound ==
    Cardinality(running) <= (IF max_threads > 0 THEN max_threads ELSE 0)

\* C2 witness: the pool is full and further submitted addresses wait in the queue.
C2_Witness ==
    /\ max_threads >= 1
    /\ Cardinality(running) = max_threads
    /\ Len(work_queue) >= 2

\* C4 (as claimed): the addresses submitted are those of the range without
\* its network and broadcast addresses for prefixes up to /30, and every
\* address for /31 and /32.
C4_SubmitsUsableHostsOnly ==
    SubmittedAll => DOMAIN futures = UsableHosts(ip_range)

\* C20: a max_threads of 0 or less is rejected when the pool is created, before
\* any address is submitted; a max_threads left out is 50; no probe runs under
\* a limit that is not positive.
C20_NonPositiveLimitRejected ==
    /\ ~threads_arg.given => max_threads = 50
    /\ threads_arg.given => max_threads = threads_arg.value
    /\ max_threads <= 0 =>
          /\ dpc \in {"idle", "raised"}
          /\ next_ip = 0 /\ work_queue = <<>> /\ futures = << >>
          /\ num_threads = 0 /\ running = {}
    /\ running # {} => max_threads >= 1

\* C20 witness: discover() has raised for a limit of 0 or less.
C20_Witness ==
    /\ threads_arg.given
    /\ threads_arg.value <= 0
    /\ dpc = "raised"

\* C10 (as claimed): a host probe that raises does not make discover() raise.
C10_ProbeFailureContained ==
    (\E ip \in DOMAIN futures : futures[ip].result.kind = "exception")
        => dpc \notin {"exit_exc", "raised"}

\* The place of a listed device in the order in which the probes ended.
CompletionIndex(ipstr) ==
    CHOOSE k \in DOMAIN completed : IpStr(completed[k]) = ipstr

\* C21: the list of discover() is in probe completion order: of two devices
\* in the list, the one whose probe ended first comes first.
C21_ResultInCompletionOrder ==
    \A i \in DOMAIN devices, j \in DOMAIN devices :
        i < j => CompletionIndex(devices[i].ip) < CompletionIndex(devices[j].ip)

\* C22: discover() performs a scoped drain of its pool: once it has returned
\* or raised, every submitted probe has finished, none is queued or running,
\* the pool has no thread left, and no probe starts afterwards.
C22_ScopedDrain ==
    dpc \in {"returned", "raised"} =>
        /\ work_queue = <<>> /\ running = {} /\ num_threads = 0
        /\ \A ip \in DOMAIN futures : futures[ip].state = "FINISHED"
        /\ ~ENABLED WorkerStart

\* C22 witness: discover() has raised the exception of one probe after the
\* probes of all other addresses, submitted before, have finished too.
C22_Witness ==
    /\ dpc = "raised"
    /\ Cardinality(DOMAIN futures) >= 2
    /\ yielded # DOMAIN futures

\* C28: every device in the list of discover() is an address of the
\* configured range whose liveness connect (to port 80) succeeded, and no
\* address is listed twice.
C28_DevicesAliveAndDistinct ==
    \A i \in DOMAIN devices :
        /\ devices[i].kind = "dict"
        /\ \E ip \in passed \cap Addresses(ip_range) : devices[i].ip = IpStr(ip)
        /\ \A j \in DOMAIN devices : j # i => devices[j].ip # devices[i].ip

\* C28 witness: discover() has returned two devices or more, and not every
\* address of the range.
C28_Witness ==
    /\ dpc = "returned"
    /\ Len(devices) >= 2
    /\ Len(devices) < NumAddresses(ip_range)

----------------------------------------------------------------------------
\* Claims about one host probe (SpecProbe)

\* The probe ended at `return None`: the host was classified as not alive.
ClassifiedDead == ppc = "returned" /\ p_ret.kind = "None"

\* C3 (as claimed): once the liveness connect has been made, the host is
\* classified as not alive exactly when the connect timed out; a refused or a
\* successful connect classifies it as alive.
C3_RefusedIsAlive ==
    Len(netlog) >= 1 => (ClassifiedDead <=> netlog[1].outcome = "timeout")

\* C5 (as claimed): liveness check, then port sweep, then hostname lookup: a
\* hostname lookup is made only after all the port connects, and a port
\* connect only after a successful liveness check.
C5_LivenessPortsHostname ==
    /\ \A i \in LookupCalls :
          Cardinality({ j \in PortCalls : j < i }) = Len(common_ports)
    /\ \A i \in PortCalls :
          netlog[1].op = "is_host_alive" /\ netlog[1].outcome = "connected"

\* C5 (amended): liveness check, then hostname lookup, then port sweep: the
\* liveness connect is the first call; the hostname lookup is the second and
\* is made only after a successful liveness check; a port connect is made
\* only after the hostname lookup has returned.
C5_LivenessHostnamePorts ==
    \A i \in DOMAIN netlog :
        /\ netlog[i].op = "is_host_alive" => i = 1
        /\ netlog[i].op = "gethostbyaddr" =>
              /\ i = 2
              /\ netlog[1].op = "is_host_alive" /\ netlog[1].outcome = "connected"
        /\ netlog[i].op = "is_port_open" =>
              /\ i >= 3
              /\ netlog[1].op = "is_host_alive" /\ netlog[1].outcome = "connected"
              /\ netlog[2].op = "gethostbyaddr" /\ netlog[2].outcome # "other"

\* C5 witness: a probe went through the three states.
C5_Witness ==
    /\ ppc = "returned"
    /\ Len(netlog) = 2 + Len(common_ports)

\* C6: once the liveness check of an address has failed, no port connect and
\* no hostname lookup is made for it, and the probe ends with empty open_ports.
C6_UnreachableTerminal ==
    (Len(netlog) >= 1 /\ netlog[1].outcome # "connected") =>
        /\ Len(netlog) = 1
        /\ ppc = "returned"
        /\ p_ret.kind = "None"
        /\ open_ports = <<>>
        /\ device_info.open_ports = <<>>

\* C6 witness: a probe whose liveness connect was refused has ended.
C6_Witness ==
    /\ ppc = "returned"
    /\ Len(netlog) = 1
    /\ netlog[1].outcome = "refused"

RECURSIVE IsSubseq(_, _)
IsSubseq(s, t) ==
    IF s = <<>> THEN TRUE
    ELSE IF t = <<>> THEN FALSE
    ELSE IF Head(s) = Head(t) THEN IsSubseq(Tail(s), Tail(t))
    ELSE IsSubseq(s, Tail(t))

\* The ports probed so far, in the order they were probed.
ProbedSeq == [i \in 1..Cardinality(PortCalls) |-> netlog[i + 2].port]

OrderedPortList(ports) ==
    /\ NoDuplicates(ports)
    /\ IsSubseq(ports, ProbedSeq)
    /\ IsSubseq(ports, common_ports)

\* C7: open_ports, in the scan and in the host result, is a duplicate-free
\* subsequence of the ports probed: no port that was not probed, and the
\* ports in the order they were probed.
C7_OpenPortsSubsequence ==
    /\ OrderedPortList(open_ports)
    /\ OrderedPortList(device_info.open_ports)
    /\ (ppc = "returned" /\ p_ret.kind = "dict") => OrderedPortList(p_ret.open_ports)

\* C7 witness: a host result with several, but not all, of the ports.
C7_Witness ==
    /\ ppc = "returned"
    /\ p_ret.kind = "dict"
    /\ Len(p_ret.open_ports) >= 2
    /\ Len(p_ret.open_ports) < Len(common_ports)

\* C8: the open_ports of a host result are exactly the scanned ports on which
\* the connect succeeded; a port that refused or timed out is not among them.
C8_OpenPortsExact ==
    (ppc = "returned" /\ p_ret.kind = "dict") =>
        /\ ProbedPorts = Elems(common_ports)
        /\ Elems(p_ret.open_ports) = AcceptedPorts

\* C8 witness: a host accepting on 80 only, port 22 refusing and another
\* port timing out, yields open_ports = [80].
C8_Witness ==
    /\ ppc = "returned"
    /\ p_ret.kind = "dict"
    /\ p_ret.open_ports = <<80>>
    /\ \E i, j \in PortCalls :
          /\ netlog[i].port = 22 /\ netlog[i].outcome = "refused"
          /\ netlog[j].outcome = "timeout"

\* C9 (as claimed): however the reverse lookup fails, the probe is not
\* aborted, and its result has hostname None.
C9_LookupFailureNotFatal ==
    \A i \in LookupCalls :
        netlog[i].outcome # "resolved" =>
            /\ ppc # "raised"
            /\ ppc = "returned" => (p_ret.kind = "dict" /\ p_ret.hostname = None)

\* ======================================================================
\* ScanScheduler: the job API (add_job, remove_job, list_jobs)
\* ======================================================================

\* The job ids, caller threads and kwargs dicts the model draws its calls from.
JobIds == {"daily_scan", "interval_scan"}
Callers == {"t1", "t2"}
MaxRefs == 2

\* A key that the call's **kwargs does not hold.
Absent == "absent"

\* str.lower(), on the day names the model passes.
Lower(day) == IF day = "Friday" THEN "friday" ELSE day

Weekdays == {"monday", "tuesday", "wednesday", "thursday", "friday", "saturday",
             "sunday"}

\* The (schedule_type, **kwargs) of the add_job calls: one valid call of each
\* type, and one call for each way the validation rejects.
AddInputs ==
    { [ty |-> "daily",    kw |-> [time |-> "02:00", day |-> Absent, interval |-> Absent]],
      [ty |-> "weekly",   kw |-> [time |-> "02:00", day |-> "Friday", interval |-> Absent]],
      [ty |-> "interval", kw |-> [time |-> Absent, day |-> Absent, interval |-> "30"]],
      [ty |-> "daily",    kw |-> [time |-> Absent, day |-> Absent, interval |-> Absent]],
      [ty |-> "weekly",   kw |-> [time |-> "02:00", day |-> Absent, interval |-> Absent]],
      [ty |-> "weekly",   kw |-> [time |-> "02:00", day |-> "funday", interval |-> Absent]],
      [ty |-> "interval", kw |-> [time |-> "02:00", day |-> Absent, interval |-> Absent]],
      [ty |-> "hourly",   kw |-> [time |-> Absent, day |-> Absent, interval |-> "30"]] }

\* `job_id in self.jobs` (add_job's first test).
IsDuplicateNever(job_id, js) == FALSE
IsDuplicate(job_id, js) == job_id \in DOMAIN js

\* `job_id not in self.jobs` (remove_job's first test).
IsUnknownNever(job_id, js) == FALSE
IsUnknown(job_id, js) == job_id \notin DOMAIN js

\* (mutant) the weekly branch without its test of the day name.
ValidScheduleAnyDay(ty, kw) ==
    CASE ty = "daily"    -> kw.time # Absent
      [] ty = "weekly"   -> kw.time # Absent /\ kw.day # Absent
      [] ty = "interval" -> kw.interval # Absent
      [] OTHER           -> FALSE

\* The branches of add_job that reach a .do(...) instead of a raise.
ValidSchedule(ty, kw) ==
    CASE ty = "daily"    -> kw.time # Absent
      [] ty = "weekly"   -> /\ kw.time # Absent /\ kw.day # Absent
                            /\ Lower(kw.day) \in Weekdays
      [] ty = "interval" -> kw.interval # Absent
      [] OTHER           -> FALSE

\* The entry .do(self._execute_job, job_id=job_id, task=task) appends to the
\* default scheduler of the schedule module.  add_job never calls .tag(), so
\* the entry's tags are empty.  `due` is should_run; `cancelled` (history)
\* records that a remove_job of this job returned after the entry was made.
ScheduleEntry(job_id) ==
    [job_id |-> job_id, tags |-> {}, due |-> FALSE, cancelled |-> FALSE]

\* schedule.clear(tag): drops the entries that carry the tag.
Clear(reg, tag) == SelectSeq(reg, LAMBDA e : tag \notin e.tags)

\* (history) marks the entries of a job whose removal has just returned.
MarkCancelled(reg, job_id) ==
    [i \in DOMAIN reg |->
        IF reg[i].job_id = job_id THEN [reg[i] EXCEPT !.cancelled = TRUE] ELSE reg[i]]

\* The variables of the scheduler loop, of the task threads and of the
\* config-driven scheduler: the job API touches none of them.
loopvars == <<s_running, scheduler_thread, lpc, tasks, raised, error_log, late_fires, cpc, c_rc,
              c_scans, other, extra_loops>>

\* No sweep runs: the tasks the scheduler is given are opaque callables.
NoDiscovery ==
    /\ ip_range = IpNetwork(BaseAddr, AddrBits)
    /\ DiscoverIdle
    /\ ProbeIdle

\* add_job, lines 63-85: the duplicate test, the validation of the schedule
\* and the registration of the entry.  A raise leaves the call.
AddJob(c, job_id, inp) ==
    /\ cl[c].pc = "idle"
    /\ IF IsDuplicate(job_id, jobs)
         THEN /\ exc' = "DuplicateJobID"
              /\ UNCHANGED <<registry, heap, cl>>
         ELSE IF ~ValidSchedule(inp.ty, inp.kw)
         THEN /\ exc' = "InvalidSchedule"
              /\ UNCHANGED <<registry, heap, cl>>
         ELSE /\ Len(heap) < MaxRefs
              /\ heap' = Append(heap, inp.kw)
              /\ registry' = Append(registry, ScheduleEntry(job_id))
              /\ cl' = [cl EXCEPT ![c] = [pc |-> "add_store", id |-> job_id,
                                          ty |-> inp.ty, kw |-> Len(heap) + 1]]
              /\ UNCHANGED exc
    /\ UNCHANGED <<jobs, snapshot, loopvars, dvars, pvars>>

\* add_job, line 87: self.jobs[job_id] = {...}, holding the kwargs dict itself.
AddStore(c) ==
    /\ cl[c].pc = "add_store"
    /\ jobs' = (cl[c].id :> [task |-> "task", schedule_type |-> cl[c].ty,
                             kwargs |-> cl[c].kw]) @@ jobs
    /\ cl' = [cl EXCEPT ![c] = IdleCaller]
    /\ UNCHANGED <<registry, heap, snapshot, exc, loopvars, dvars, pvars>>

\* remove_job, lines 100-103: the unknown-id test and schedule.clear(job_id).
RemoveJob(c, job_id) ==
    /\ cl[c].pc = "idle"
    /\ IF IsUnknown(job_id, jobs)
         THEN /\ exc' = "UnknownJobID"
              /\ UNCHANGED <<registry, cl>>
         ELSE /\ registry' = Clear(registry, job_id)
              /\ cl' = [cl EXCEPT ![c] = [pc |-> "rm_del", id |-> job_id,
                                          ty |-> "-", kw |-> 0]]
              /\ UNCHANGED exc
    /\ UNCHANGED <<jobs, heap, snapshot, loopvars, dvars, pvars>>

\* remove_job, line 104: del self.jobs[job_id]; a KeyError when another
\* remove_job of the same id got there first.
RemoveDel(c) ==
    /\ cl[c].pc = "rm_del"
    /\ IF cl[c].id \in DOMAIN jobs
         THEN /\ jobs' = [j \in DOMAIN jobs \ {cl[c].id} |-> jobs[j]]
              /\ registry' = MarkCancelled(registry, cl[c].id)
              /\ UNCHANGED exc
         ELSE /\ exc' = "KeyError"
              /\ UNCHANGED <<jobs, registry>>
    /\ cl' = [cl EXCEPT ![c] = IdleCaller]
    /\ UNCHANGED <<heap, snapshot, loopvars, dvars, pvars>>

\* The job ids in a fixed order (the model does not keep the dict's insertion
\* order).
RECURSIVE SeqOfIds(_)
SeqOfIds(S) ==
    IF S = {} THEN <<>>
    ELSE LET id == CHOOSE x \in S : \A y \in S : x = "daily_scan" \/ y # "daily_scan"
         IN  <<id>> \o SeqOfIds(S \ {id})

\* list_jobs: [{"job_id": job_id, **job_details} for ...]: a new list of new
\* dicts whose "kwargs" is the very dict self.jobs holds.
ListedJobs(js) ==
    LET ids == SeqOfIds(DOMAIN js)
    IN  [i \in DOMAIN ids |->
            [job_id |-> ids[i], task |-> js[ids[i]].task,
             schedule_type |-> js[ids[i]].schedule_type,
             kwargs |-> js[ids[i]].kwargs]]

ListJobs ==
    /\ snapshot' = [taken |-> TRUE, list |-> ListedJobs(jobs)]
    /\ UNCHANGED <<jobs, registry, heap, cl, exc, loopvars, dvars, pvars>>

\* The caller changes the value list_jobs returned: it drops the first entry
\* of the list, ...
MutateList ==
    /\ snapshot.taken /\ snapshot.list # <<>>
    /\ snapshot' = [snapshot EXCEPT !.list = Tail(snapshot.list)]
    /\ UNCHANGED <<jobs, registry, heap, cl, exc, loopvars, dvars, pvars>>

\* ... overwrites a key of an entry, ...
MutateEntry(i) ==
    /\ snapshot.taken /\ i \in DOMAIN snapshot.list
    /\ snapshot.list[i].schedule_type # "edited"
    /\ snapshot' = [snapshot EXCEPT !.list[i].schedule_type = "edited"]
    /\ UNCHANGED <<jobs, registry, heap, cl, exc, loopvars, dvars, pvars>>

\* ... or overwrites a key of an entry's nested "kwargs" dict.
MutateKwargs(i) ==
    /\ snapshot.taken /\ i \in DOMAIN snapshot.list
    /\ heap[snapshot.list[i].kwargs].time # "23:59"
    /\ heap' = [heap EXCEPT ![snapshot.list[i].kwargs].time = "23:59"]
    /\ UNCHANGED <<jobs, registry, snapshot, cl, exc, loopvars, dvars, pvars>>

MutateReturned ==
    \/ MutateList
    \/ \E i \in 1..MaxRefs : MutateEntry(i)
    \/ \E i \in 1..MaxRefs : MutateKwargs(i)

\* A ScanScheduler that has just been built, used by the given caller threads.
InitScheduler(callers) ==
    /\ NoDiscovery
    /\ jobs = << >> /\ registry = <<>> /\ heap = <<>>
    /\ snapshot = [taken |-> FALSE, list |-> <<>>]
    /\ cl = [c \in callers |-> IdleCaller] /\ exc = "none"
    /\ s_running = FALSE /\ scheduler_thread = "new" /\ lpc = "check"
    /\ tasks = <<>> /\ raised = {} /\ error_log = {} /\ late_fires = {}
    /\ cpc = "off" /\ c_rc = "none" /\ c_scans = 0
    /\ other = NoOther /\ extra_loops = 0

\* Two threads call add_job and remove_job with no synchronisation between
\* them (the class holds no lock).
InitJobs == InitScheduler(Callers)

NextJobs ==
    \/ \E c \in DOMAIN cl, job_id \in JobIds, inp \in AddInputs : AddJob(c, job_id, inp)
    \/ \E c \in DOMAIN cl : AddStore(c)
    \/ \E c \in DOMAIN cl, job_id \in JobIds : RemoveJob(c, job_id)
    \/ \E c \in DOMAIN cl : RemoveDel(c)

SpecJobs == InitJobs /\ [][NextJobs]_vars

\* One thread manages the jobs, calls list_jobs and changes what it returned.
InitSnapshot == InitScheduler({"t1"})

NextSnapshot ==
    \/ \E job_id \in JobIds, inp \in AddInputs : AddJob("t1", job_id, inp)
    \/ AddStore("t1")
    \/ \E job_id \in JobIds : RemoveJob("t1", job_id)
    \/ RemoveDel("t1")
    \/ ListJobs
    \/ MutateList
    \/ \E i \in 1..MaxRefs : MutateEntry(i)
    \/ \E i \in 1..MaxRefs : MutateKwargs(i)

SpecSnapshot == InitSnapshot /\ [][NextSnapshot]_vars

\* ======================================================================
\* ScanScheduler: start, stop, the scheduler loop and the task threads
\* ======================================================================

\* The number of task threads that execute at the same time.
MaxTasks == 2

\* The add_job calls made while the loop runs: the valid interval ones (the
\* clock is abstracted into ComesDue, so the schedule_type makes no
\* difference; the calls that raise are those of SpecJobs).
LoopInputs == { inp \in AddInputs : inp.ty = "interval" /\ ValidSchedule(inp.ty, inp.kw) }

\* How a task (an opaque callable) ends: it returns, or it raises.
TaskOutcomes == {"done", "failed"}

\* The indices of the entries schedule.run_pending() finds due.
DueEntries(reg) == { i \in DOMAIN reg : reg[i].due }

\* The thread _execute_job starts for an entry.
NewTask(entry) == [job_id |-> entry.job_id]

\* (mutant) a tick runs the first due entry only.
DispatchFirstDue(ts, reg, i) ==
    IF DueEntries(reg) = {} THEN ts
    ELSE Append(ts, NewTask(reg[CHOOSE k \in DueEntries(reg) :
                                  \A m \in DueEntries(reg) : k <= m]))

\* The task threads after run_pending has run the due entries, in order.
RECURSIVE Dispatch(_, _, _)
Dispatch(ts, reg, i) ==
    IF i > Len(reg) THEN ts
    ELSE Dispatch(IF reg[i].due THEN Append(ts, NewTask(reg[i])) ELSE ts, reg, i + 1)

\* (history) what a tick that dispatches the due entries adds to late_fires:
\* "after_stop" when self.running is False at the dispatch, "after_remove"
\* when a due entry belongs to a job whose remove_job had returned.
LateFires(reg, isRunning) ==
    (IF DueEntries(reg) # {} /\ ~isRunning THEN {"after_stop"} ELSE {})
        \cup (IF \E i \in DueEntries(reg) : reg[i].cancelled THEN {"after_remove"} ELSE {})

\* run_pending reschedules each entry it ran: none is dropped from the list.
Rescheduled(reg) == [i \in DOMAIN reg |-> [reg[i] EXCEPT !.due = FALSE]]

\* What stop() does to the task threads: nothing (it only clears a flag).
TasksAfterStopTerminated(ts) == <<>>
TasksAfterStop(ts) == ts

apivars == <<jobs, registry, heap, snapshot, cl>>

\* start(): sets the flag and starts the thread object built in __init__; a
\* thread object can be started once, a second start raises RuntimeError.
Start ==
    /\ ~s_running
    /\ s_running' = TRUE
    /\ IF scheduler_thread = "new"
         THEN scheduler_thread' = "alive" /\ UNCHANGED exc
         ELSE exc' = "RuntimeError" /\ UNCHANGED scheduler_thread
    /\ UNCHANGED <<apivars, lpc, tasks, raised, error_log, late_fires, cpc, c_rc, c_scans, other,
                   extra_loops, dvars, pvars>>

\* stop(): self.running = False, and nothing else.
Stop ==
    /\ s_running' = FALSE
    /\ tasks' = TasksAfterStop(tasks)
    /\ UNCHANGED <<apivars, exc, scheduler_thread, lpc, raised, error_log, late_fires, cpc, c_rc,
                   c_scans, other, extra_loops, dvars, pvars>>

\* _run_scheduler, line 134: the test of `while self.running`.
LoopCheck ==
    /\ scheduler_thread = "alive" /\ lpc = "check"
    /\ IF s_running
         THEN lpc' = "run_pending" /\ UNCHANGED scheduler_thread
         ELSE scheduler_thread' = "finished" /\ UNCHANGED lpc
    /\ UNCHANGED <<apivars, exc, s_running, tasks, raised, error_log, late_fires, cpc, c_rc, c_scans, other,
                   extra_loops, dvars, pvars>>

\* _run_scheduler, lines 135-136: schedule.run_pending() calls _execute_job
\* for every due entry, then the loop sleeps a second.  _execute_job starts a
\* daemon thread on the task and returns; when the thread cannot be started
\* (started is FALSE) the except logs "execution failed".
RunPending(started) ==
    /\ scheduler_thread = "alive" /\ lpc = "run_pending"
    /\ IF started
         THEN /\ tasks' = Dispatch(tasks, registry, 1)
              /\ late_fires' = late_fires \cup LateFires(registry, s_running)
              /\ UNCHANGED error_log
         ELSE /\ DueEntries(registry) # {}
              /\ error_log' = error_log \cup
                                { registry[i].job_id : i \in DueEntries(registry) }
              /\ UNCHANGED <<tasks, late_fires>>
    /\ registry' = Rescheduled(registry)
    /\ lpc' = "check"
    /\ UNCHANGED <<jobs, heap, snapshot, cl, exc, s_running, scheduler_thread, raised,
                   cpc, c_rc, c_scans, other,
                   extra_loops, dvars, pvars>>

\* The clock reaches the next run of an entry.
ComesDue(i) ==
    /\ i \in DOMAIN registry /\ ~registry[i].due
    /\ Len(tasks) + Cardinality(DueEntries(registry)) < MaxTasks
    /\ registry' = [registry EXCEPT ![i].due = TRUE]
    /\ UNCHANGED <<jobs, heap, snapshot, cl, exc, loopvars, dvars, pvars>>

\* The threads left when thread i has ended.
RemoveAt(ts, i) == [k \in 1..(Len(ts) - 1) |-> IF k < i THEN ts[k] ELSE ts[k + 1]]

\* A task thread ends: the callable returns, or raises in its own thread
\* (where nothing of the scheduler catches or logs it).
TaskEnds(i, outcome) ==
    /\ i \in DOMAIN tasks
    /\ tasks' = RemoveAt(tasks, i)
    /\ raised' = IF outcome = "failed" THEN raised \cup {tasks[i].job_id} ELSE raised
    /\ UNCHANGED <<apivars, exc, s_running, scheduler_thread, lpc, error_log, late_fires,
                   cpc, c_rc, c_scans, other,
                   extra_loops, dvars, pvars>>

\* ----------------------------------------------------------------------
\* The config-driven ScanScheduler (src/tools/scan_scheduler.py)
\* ----------------------------------------------------------------------

\* result.returncode, as run_scheduled_scan tells it apart.
ReturnCodes == {"zero", "nonzero"}

\* The scan processes that may run at once (the loop itself never starts a
\* second one).
MaxScans == 2

\* (mutant) the scan is started and not waited for (Popen).
AfterScanStartedNoWait == "sleep"

\* Where the loop is once the scan process has been started: inside
\* subprocess.run, which waits for the process to exit.
AfterScanStarted == "scanning"

\* run_scheduled_scan, lines 21-23: the top of `while True` and the call of
\* subprocess.run(self.scan_command, shell=True), which starts the process.
CfgStartScan ==
    /\ cpc = "start"
    /\ c_scans < MaxScans
    /\ c_scans' = c_scans + 1
    /\ cpc' = AfterScanStarted
    /\ UNCHANGED <<apivars, exc, s_running, scheduler_thread, lpc, tasks, raised, error_log, late_fires,
                   c_rc, other, extra_loops, dvars, pvars>>

\* lines 23-28: a scan process exits; the subprocess.run that waited for it
\* returns its returncode and the outcome is printed.
CfgScanExits(rc) ==
    /\ c_scans > 0
    /\ c_scans' = c_scans - 1
    /\ c_rc' = rc
    /\ cpc' = IF cpc = "scanning" THEN "sleep" ELSE cpc
    /\ UNCHANGED <<apivars, exc, s_running, scheduler_thread, lpc, tasks, raised, error_log, late_fires,
                   other, extra_loops, dvars, pvars>>

\* line 29: time.sleep(self.scan_interval) returns.
CfgSleepDone ==
    /\ cpc = "sleep"
    /\ cpc' = "start"
    /\ UNCHANGED <<apivars, exc, s_running, scheduler_thread, lpc, tasks, raised, error_log, late_fires,
                   c_rc, c_scans, other, extra_loops, dvars, pvars>>

\* Either program: a ScanScheduler() managed by one thread, or the
\* config-driven scheduler entering run_scheduled_scan.
InitLoop ==
    \/ InitScheduler({"t1"})
    \/ /\ NoDiscovery
       /\ jobs = << >> /\ registry = <<>> /\ heap = <<>>
       /\ snapshot = [taken |-> FALSE, list |-> <<>>]
       /\ cl = << >> /\ exc = "none"
       /\ s_running = FALSE /\ scheduler_thread = "new" /\ lpc = "check"
       /\ tasks = <<>> /\ raised = {} /\ error_log = {} /\ late_fires = {}
       /\ cpc = "start" /\ c_rc = "none" /\ c_scans = 0
       /\ other = NoOther /\ extra_loops = 0

NextLoop ==
    \/ \E c \in DOMAIN cl, job_id \in JobIds \ DOMAIN jobs, inp \in LoopInputs :
          AddJob(c, job_id, inp)
    \/ \E c \in DOMAIN cl : AddStore(c)
    \/ \E c \in DOMAIN cl, job_id \in DOMAIN jobs : RemoveJob(c, job_id)
    \/ \E c \in DOMAIN cl : RemoveDel(c)
    \/ cpc = "off" /\ Start
    \/ cpc = "off" /\ Stop
    \/ LoopCheck
    \/ RunPending(TRUE)
    \/ \E i \in 1..MaxRefs : ComesDue(i)
    \/ \E i \in 1..MaxTasks, outcome \in TaskOutcomes : TaskEnds(i, outcome)
    \/ CfgStartScan
    \/ \E rc \in ReturnCodes : CfgScanExits(rc)
    \/ CfgSleepDone

SpecLoop == InitLoop /\ [][NextLoop]_vars

\* A scheduler that is started and never stopped, whose jobs are added and
\* never removed, whose task threads may fail to start and whose tasks may
\* raise.
InitIsolation == InitScheduler({"t1"})

NextIsolation ==
    \/ \E job_id \in JobIds \ DOMAIN jobs, inp \in LoopInputs : AddJob("t1", job_id, inp)
    \/ AddStore("t1")
    \/ Start
    \/ LoopCheck
    \/ \E started \in BOOLEAN : RunPending(started)
    \/ \E i \in 1..MaxRefs : ComesDue(i)
    \/ \E i \in 1..MaxTasks, outcome \in TaskOutcomes : TaskEnds(i, outcome)

SpecIsolation == InitIsolation /\ [][NextIsolation]_vars

\* ----------------------------------------------------------------------
\* Claims about the job API (SpecJobs)
\* ----------------------------------------------------------------------

\* C11: an add_job whose job_id is already in the jobs map raises the
\* duplicate-id ValueError and changes nothing: the jobs map and the
\* registered schedule entries are the same after the call as before it, and
\* the caller is out of the call.
C11_DuplicateAddHasNoEffect ==
    [][\A c \in DOMAIN cl, job_id \in JobIds, inp \in AddInputs :
          (job_id \in DOMAIN jobs /\ AddJob(c, job_id, inp)) =>
              /\ exc' = "DuplicateJobID"
              /\ jobs' = jobs /\ registry' = registry /\ heap' = heap
              /\ cl'[c].pc = "idle"]_vars

\* A duplicate add_job has been rejected while a job and its entry exist.
C11_Witness ==
    /\ exc = "DuplicateJobID"
    /\ DOMAIN jobs # {} /\ registry # <<>>

\* C13: a remove_job whose job_id is not in the jobs map raises the
\* unknown-id ValueError and leaves the jobs map and the registered schedule
\* entries as they were.
C13_UnknownRemoveHasNoEffect ==
    [][\A c \in DOMAIN cl, job_id \in JobIds :
          (job_id \notin DOMAIN jobs /\ RemoveJob(c, job_id)) =>
              /\ exc' = "UnknownJobID"
              /\ jobs' = jobs /\ registry' = registry
              /\ cl' = cl]_vars

\* An unknown-id remove_job has been rejected while entries are registered.
C13_Witness ==
    /\ exc = "UnknownJobID"
    /\ registry # <<>>

\* The add_job calls C24 speaks of: an invalid schedule_type, a required
\* parameter missing, or a weekday that is none.
RejectedInputs ==
    { inp \in AddInputs :
        \/ inp.ty \notin {"daily", "weekly", "interval"}
        \/ inp.ty = "daily" /\ inp.kw.time = Absent
        \/ inp.ty = "weekly" /\ (inp.kw.time = Absent \/ inp.kw.day = Absent)
        \/ inp.ty = "weekly" /\ inp.kw.day \notin {Absent, "Friday"}
        \/ inp.ty = "interval" /\ inp.kw.interval = Absent }

\* C24: an add_job of a new job_id with an invalid schedule_type, a missing
\* required parameter or an invalid weekday raises ValueError and leaves the
\* scheduler unchanged: nothing is added to the jobs map, no schedule entry is
\* registered, the caller is out of the call, and the job_id is still free.
C24_InvalidAddHasNoEffect ==
    [][\A c \in DOMAIN cl, job_id \in JobIds, inp \in RejectedInputs :
          (job_id \notin DOMAIN jobs /\ AddJob(c, job_id, inp)) =>
              /\ exc' = "InvalidSchedule"
              /\ jobs' = jobs /\ registry' = registry /\ heap' = heap
              /\ cl' = cl
              /\ job_id \notin DOMAIN jobs']_vars

\* An invalid add_job was rejected and its job_id was added afterwards, by a
\* valid call (no other call has failed since).
C24_Witness ==
    /\ exc = "InvalidSchedule"
    /\ DOMAIN jobs = JobIds
    /\ Len(registry) = Cardinality(JobIds)

\* The scheduler's job metadata with the nested kwargs dicts read through.
DeepJobs ==
    [job_id \in DOMAIN jobs |->
        [task |-> jobs[job_id].task, schedule_type |-> jobs[job_id].schedule_type,
         kwargs |-> heap[jobs[job_id].kwargs]]]

\* The value list_jobs returned with the nested kwargs dicts read through.
DeepSnapshot ==
    [i \in DOMAIN snapshot.list |->
        [job_id |-> snapshot.list[i].job_id, task |-> snapshot.list[i].task,
         schedule_type |-> snapshot.list[i].schedule_type,
         kwargs |-> heap[snapshot.list[i].kwargs]]]

\* C18: list_jobs returns a snapshot copy: no later add_job or remove_job
\* step changes a value list_jobs has returned, and no change the caller makes
\* to the returned value (the list, an entry, an entry's nested kwargs)
\* changes the scheduler's own job metadata.
C18_SnapshotIsACopy ==
    [][/\ (snapshot.taken /\ NextJobs) => DeepSnapshot' = DeepSnapshot
       /\ MutateReturned => DeepJobs' = DeepJobs]_vars

\* C19: job-map mutations are mutually exclusive: two threads are never both
\* past add_job's duplicate test with the same job_id (both calls would then
\* succeed and two schedule entries would be registered for the id).
C19_AddsMutuallyExclusive ==
    \A c1 \in DOMAIN cl, c2 \in DOMAIN cl :
        (c1 # c2 /\ cl[c1].pc = "add_store" /\ cl[c2].pc = "add_store")
            => cl[c1].id # cl[c2].id

\* ----------------------------------------------------------------------
\* Claims about the scheduler loop (SpecLoop, SpecIsolation)
\* ----------------------------------------------------------------------

\* C12: after a remove_job(id) has returned successfully the job is never
\* fired again: no tick of the loop dispatches a task from a schedule entry
\* of a job whose removal has returned.
C12_RemovedJobNeverFires == "after_remove" \notin late_fires

\* C14: once stop() has returned no new firing begins: the loop never
\* dispatches a task while self.running is False.
C14_NoFiringAfterStop == "after_stop" \notin late_fires

\* A step of remove_job.
RemoveStep ==
    \/ \E c \in DOMAIN cl, job_id \in JobIds : RemoveJob(c, job_id)
    \/ \E c \in DOMAIN cl : RemoveDel(c)

\* s is t with elements appended.
IsPrefix(s, t) == Len(s) <= Len(t) /\ SubSeq(t, 1, Len(s)) = s

C16_TaskFailureLogged ==
    /\ raised \subseteq error_log
    /\ raised # {} =>
          /\ scheduler_thread = "alive"
          /\ ENABLED (LoopCheck \/ RunPending(TRUE))

\* C17: the scheduler's timer loop only dispatches work and never runs a scan
\* inline: while a fired scan is still executing, the loop's next step (its
\* tick check, or the dispatch of what is due) can be taken without waiting
\* for the scan to end.  Holds of either scheduler of the repository.
C17_LoopNeverRunsScanInline ==
    /\ (tasks # <<>> /\ scheduler_thread = "alive") =>
          ENABLED (LoopCheck \/ RunPending(TRUE))
    /\ cpc = "scanning" => ENABLED (CfgStartScan \/ CfgSleepDone)

----------------------------------------------------------------------------
\* C23: every blocking step of a host probe (liveness connect, port connect,
\* hostname lookup) is bounded by the configured timeout: the probe is never
\* still inside a blocking call once self.timeout has elapsed.
C23_BlockingStepsBounded == ppc # "overdue"

----------------------------------------------------------------------------
\* C30: in the config-driven scheduler scans are strictly sequential and the
\* loop never stops on a failed scan: at most one scan process runs, and only
\* while the loop is inside subprocess.run; a scan is started only when none
\* runs; the exit of a scan, whatever its code, takes the loop to the sleep,
\* and the sleep and the next scan can always be taken.
C30_SequentialScansNeverStop ==
    /\ [](/\ c_scans <= 1
          /\ (c_scans = 1) <=> (cpc = "scanning")
          /\ cpc = "sleep" => ENABLED CfgSleepDone
          /\ cpc = "start" => ENABLED CfgStartScan)
    /\ [][/\ CfgStartScan => c_scans = 0
          /\ (\E rc \in ReturnCodes : CfgScanExits(rc)) => cpc' = "sleep"]_vars

\* The next scan is running after a scan that failed.
C30_Witness == cpc = "scanning" /\ c_rc = "nonzero"

----------------------------------------------------------------------------
\* The jobs of the due entries, in the order of the schedule's job list.
DueJobIds ==
    LET due == SelectSeq(registry, LAMBDA e : e.due)
    IN  [k \in DOMAIN due |-> [job_id |-> due[k].job_id]]

C26_RunningImpliesLoopAlive == s_running => scheduler_thread = "alive"

----------------------------------------------------------------------------
\* Two ScanScheduler instances in one process.  add_job registers every entry
\* with the schedule module's default scheduler (schedule.every(), lines
\* 66-82) and every instance's loop calls the module-level
\* schedule.run_pending() (line 135): the job list is shared by the instances.

\* A second ScanScheduler that has just been built.
OtherBuilt == [running |-> FALSE, thread |-> "new", lpc |-> "check"]

\* start() of the second instance.
OtherStart ==
    /\ other.thread # "none" /\ ~other.running
    /\ other' = [other EXCEPT !.running = TRUE,
                              !.thread = IF @ = "new" THEN "alive" ELSE @]
    /\ exc' = IF other.thread = "new" THEN exc ELSE "RuntimeError"
    /\ UNCHANGED <<apivars, s_running, scheduler_thread, lpc, tasks, raised, error_log,
                   late_fires, cpc, c_rc, c_scans, extra_loops, dvars, pvars>>

\* stop() of the second instance.
OtherStop ==
    /\ other.thread # "none"
    /\ other' = [other EXCEPT !.running = FALSE]
    /\ UNCHANGED <<apivars, exc, s_running, scheduler_thread, lpc, tasks, raised, error_log,
                   late_fires, cpc, c_rc, c_scans, extra_loops, dvars, pvars>>

\* _run_scheduler of the second instance: the test of its own running flag.
OtherLoopCheck ==
    /\ other.thread = "alive" /\ other.lpc = "check"
    /\ other' = IF other.running THEN [other EXCEPT !.lpc = "run_pending"]
                                 ELSE [other EXCEPT !.thread = "finished"]
    /\ UNCHANGED <<apivars, exc, s_running, scheduler_thread, lpc, tasks, raised, error_log,
                   late_fires, cpc, c_rc, c_scans, extra_loops, dvars, pvars>>

\* (history) what a tick of the second instance's loop adds to late_fires.
FiredByOther(reg) == IF DueEntries(reg) # {} THEN {"other_instance"} ELSE {}

\* _run_scheduler of the second instance: schedule.run_pending() runs every
\* due entry of the shared job list, whichever instance registered it.
OtherRunPending ==
    /\ other.thread = "alive" /\ other.lpc = "run_pending"
    /\ tasks' = Dispatch(tasks, registry, 1)
    /\ late_fires' = late_fires \cup FiredByOther(registry)
    /\ registry' = Rescheduled(registry)
    /\ other' = [other EXCEPT !.lpc = "check"]
    /\ UNCHANGED <<jobs, heap, snapshot, cl, exc, s_running, scheduler_thread, lpc, raised,
                   error_log, cpc, c_rc, c_scans, extra_loops, dvars, pvars>>

\* One instance is given jobs and is never started; a second instance, which
\* is given no job, is started and stopped.
InitInstances ==
    /\ NoDiscovery
    /\ jobs = << >> /\ registry = <<>> /\ heap = <<>>
    /\ snapshot = [taken |-> FALSE, list |-> <<>>]
    /\ cl = [c \in {"t1"} |-> IdleCaller] /\ exc = "none"
    /\ s_running = FALSE /\ scheduler_thread = "new" /\ lpc = "check"
    /\ tasks = <<>> /\ raised = {} /\ error_log = {} /\ late_fires = {}
    /\ cpc = "off" /\ c_rc = "none" /\ c_scans = 0
    /\ other = OtherBuilt /\ extra_loops = 0

NextInstances ==
    \/ \E job_id \in JobIds \ DOMAIN jobs, inp \in LoopInputs : AddJob("t1", job_id, inp)
    \/ AddStore("t1")
    \/ OtherStart
    \/ OtherStop
    \/ OtherLoopCheck
    \/ OtherRunPending
    \/ \E i \in 1..MaxRefs : ComesDue(i)
    \/ \E i \in 1..MaxTasks, outcome \in TaskOutcomes : TaskEnds(i, outcome)

SpecInstances == InitInstances /\ [][NextInstances]_vars

\* C27: a job registered through a ScanScheduler instance fires only while
\* that instance is running: never before its start(), and never from the
\* loop of a different ScanScheduler instance of the same process.
C27_FiresOnlyFromOwnLoop ==
    /\ "other_instance" \notin late_fires
    /\ (scheduler_thread = "new" => tasks = <<>>)

----------------------------------------------------------------------------
\* Concurrent start() calls.  start() holds no lock: the test of self.running
\* (line 35), the assignment (line 36) and scheduler_thread.start() (line 37)
\* are steps of the calling thread.  Thread.start() tests the thread's
\* _started event, which the new thread sets once it runs, and then creates
\* the operating system thread.

\* A caller thread inside start().
InStart(pc) == [pc |-> pc, id |-> "-", ty |-> "-", kw |-> 0]

\* start(), line 35: `if not self.running`.  When running is True the call
\* returns at once and changes nothing.
StartCheck(c) ==
    /\ cl[c].pc = "idle"
    /\ ~s_running
    /\ cl' = [cl EXCEPT ![c] = InStart("st_set")]
    /\ UNCHANGED <<jobs, registry, heap, snapshot, exc, loopvars, dvars, pvars>>

\* start(), line 36: self.running = True.
StartSet(c) ==
    /\ cl[c].pc = "st_set"
    /\ s_running' = TRUE
    /\ cl' = [cl EXCEPT ![c] = InStart("st_thread")]
    /\ UNCHANGED <<jobs, registry, heap, snapshot, exc, scheduler_thread, lpc, tasks, raised,
                   error_log, late_fires, cpc, c_rc, c_scans, other, extra_loops, dvars, pvars>>

\* start(), line 37, first half: Thread.start() raises RuntimeError("threads
\* can only be started once") when the thread has set _started.
ThreadStart(c) ==
    /\ cl[c].pc = "st_thread"
    /\ IF scheduler_thread # "new"
         THEN exc' = "RuntimeError" /\ cl' = [cl EXCEPT ![c] = IdleCaller]
         ELSE UNCHANGED exc /\ cl' = [cl EXCEPT ![c] = InStart("st_spawn")]
    /\ UNCHANGED <<jobs, registry, heap, snapshot, loopvars, dvars, pvars>>

\* start(), line 37, second half: the operating system thread is created and
\* runs the thread's bootstrap.  The first one runs _run_scheduler.  One
\* created by a second caller for the same Thread object either dies in the
\* bootstrap (the thread's _limbo entry was already deleted, or the target
\* was deleted when the first run ended), or it runs _run_scheduler as well,
\* which only a target that is still held (a first loop that is alive)
\* allows: which of the two depends on the timing of the two bootstraps.
Spawn(c, runs) ==
    /\ cl[c].pc = "st_spawn"
    /\ IF scheduler_thread = "new"
         THEN scheduler_thread' = "alive" /\ UNCHANGED extra_loops
         ELSE /\ runs => scheduler_thread = "alive"
              /\ extra_loops' = IF runs THEN extra_loops + 1 ELSE extra_loops
              /\ UNCHANGED scheduler_thread
    /\ cl' = [cl EXCEPT ![c] = IdleCaller]
    /\ UNCHANGED <<jobs, registry, heap, snapshot, exc, s_running, lpc, tasks, raised,
                   error_log, late_fires, cpc, c_rc, c_scans, other, dvars, pvars>>

\* One iteration of _run_scheduler in a second loop thread, while running is
\* True: schedule.run_pending() and the sleep.
ExtraTick ==
    /\ extra_loops > 0 /\ s_running
    /\ tasks' = Dispatch(tasks, registry, 1)
    /\ registry' = Rescheduled(registry)
    /\ UNCHANGED <<jobs, heap, snapshot, cl, exc, s_running, scheduler_thread, lpc, raised,
                   error_log, late_fires, cpc, c_rc, c_scans, other, extra_loops, dvars, pvars>>

\* A second loop thread finds running False and ends.
ExtraLoopExit ==
    /\ extra_loops > 0 /\ ~s_running
    /\ extra_loops' = extra_loops - 1
    /\ UNCHANGED <<apivars, exc, s_running, scheduler_thread, lpc, tasks, raised, error_log,
                   late_fires, cpc, c_rc, c_scans, other, dvars, pvars>>

\* Two threads call start() (and stop()) on one ScanScheduler.
InitStart == InitScheduler(Callers)

NextStart ==
    \/ \E c \in DOMAIN cl : StartCheck(c)
    \/ \E c \in DOMAIN cl : StartSet(c)
    \/ \E c \in DOMAIN cl : ThreadStart(c)
    \/ \E c \in DOMAIN cl, runs \in BOOLEAN : Spawn(c, runs)
    \/ Stop
    \/ LoopCheck
    \/ RunPending(TRUE)
    \/ ExtraTick
    \/ ExtraLoopExit

SpecStart == InitStart /\ [][NextStart]_vars

\* The threads that execute _run_scheduler.
LoopThreads == (IF scheduler_thread = "alive" THEN 1 ELSE 0) + extra_loops

\* C29: at most one scheduler loop thread exists per ScanScheduler: under any
\* interleaving of concurrent start() calls the loop body is never executed
\* by two threads at once.
C29_AtMostOneLoopThread == LoopThreads <= 1

====
